---- MODULE Spec2Model ----
(***************************************************************************)
(* Model of loxize's bytecode chunk (Bytecode), its instruction pointer    *)
(* (Ip<S>) and its disassembler, src/src/bytecode.rs.                      *)
(*                                                                         *)
(* Offsets are 0-based as in the source; TLA+ sequences are 1-based, so    *)
(* the byte at offset k of code is code[k + 1].                            *)
(***************************************************************************)
EXTENDS Integers, Sequences, FiniteSets, TLC

\* ------------------------------------------------------------- bounds
MaxCode == 3
MaxByte == 3
MaxLine == 2
MaxConsts == 2
MaxValue == 2
MaxIps == 2

Bytes == 0..MaxByte
Lines == 1..MaxLine
Values == 1..MaxValue
Indices == 0..MaxConsts
Names == {"test"}
MaxOff == MaxCode + 1

\* ------------------------------------------------------- opcode table
\* crate::opcodes is not among the sources: the closed set of opcodes, their
\* one-byte tags and operand widths follow the specification's table.
Ops == {"Ret", "Negate", "ConstantSmall"}

TagRet == 0
TagNegate == 1
TagConstantSmall == 2

TagOf(op) ==
    CASE op = "Ret" -> TagRet
      [] op = "Negate" -> TagNegate
      [] op = "ConstantSmall" -> TagConstantSmall

\* Op::try_from_primitive: Ok(op) for a mapped byte, Err otherwise.
try_from_primitive(byte) ==
    IF \E op \in Ops : TagOf(op) = byte
    THEN [ok |-> TRUE, op |-> CHOOSE op \in Ops : TagOf(op) = byte]
    ELSE [ok |-> FALSE]

operand_count(op) == IF op = "ConstantSmall" THEN 1 ELSE 0

\* The offsets a caller passes to inc: up to one instruction's width.
Incs == 0..(1 + operand_count("ConstantSmall"))

\* Display for Op.
OpDisplay(op) ==
    CASE op = "Ret" -> "OP_RETURN"
      [] op = "Negate" -> "OP_NEGATE"
      [] op = "ConstantSmall" -> "OP_CONSTANT"

\* ---------------------------------------------------------- the state
VARIABLES code,       \* Bytecode.code: Vec<u8>
          constants,  \* Bytecode.constants: Vec<LoxValue>
          lines,      \* Bytecode.lines: Vec<i32>
          buf,        \* the heap allocation holding code's bytes; 0: none yet
          ips,        \* the Ip values created so far
          ret,        \* the last call and what it returned
          writes,     \* history: the (byte, line) arguments of the write_u8 calls
          added       \* history: the arguments of the add_constant calls

vars == <<code, constants, lines, buf, ips, ret, writes, added>>

chunk == <<code, constants, lines, buf>>

\* Bytecode::new
Init ==
    /\ code = <<>>
    /\ constants = <<>>
    /\ lines = <<>>
    /\ buf = 0
    /\ ips = <<>>
    /\ ret = [kind |-> "new"]
    /\ writes = <<>>
    /\ added = <<>>

\* Vec::push on code: a push into an empty vector allocates; a push into a
\* full one moves the bytes to a new allocation. The growth strategy of Vec
\* is unspecified, so any later push may or may not reallocate.
PushAllocs == IF Len(code) = 0 THEN {buf + 1} ELSE {buf, buf + 1}

\* write_u8 with the push onto lines left out
write_u8_no_line(byte, line) ==
    /\ Len(code) < MaxCode
    /\ code' = Append(code, byte)
    /\ lines' = lines
    /\ buf' \in PushAllocs
    /\ ret' = [kind |-> "write_u8"]
    /\ writes' = Append(writes, <<byte, line>>)
    /\ UNCHANGED <<constants, ips, added>>

\* Bytecode::write_u8
write_u8(byte, line) ==
    /\ Len(code) < MaxCode
    /\ code' = Append(code, byte)
    /\ lines' = Append(lines, line)
    /\ buf' \in PushAllocs
    /\ ret' = [kind |-> "write_u8"]
    /\ writes' = Append(writes, <<byte, line>>)
    /\ UNCHANGED <<constants, ips, added>>

\* add_constant returning the length after the push instead of the index
add_constant_len(value) ==
    /\ Len(constants) < MaxConsts
    /\ constants' = Append(constants, value)
    /\ ret' = [kind |-> "add_constant", index |-> Len(constants')]
    /\ added' = Append(added, value)
    /\ UNCHANGED <<code, lines, buf, ips, writes>>

\* add_constant inserting at the front of the pool
add_constant_front(value) ==
    /\ Len(constants) < MaxConsts
    /\ constants' = <<value>> \o constants
    /\ ret' = [kind |-> "add_constant", index |-> Len(constants') - 1]
    /\ added' = Append(added, value)
    /\ UNCHANGED <<code, lines, buf, ips, writes>>

\* Bytecode::add_constant
add_constant(value) ==
    /\ Len(constants) < MaxConsts
    /\ constants' = Append(constants, value)
    /\ ret' = [kind |-> "add_constant", index |-> Len(constants') - 1]
    /\ added' = Append(added, value)
    /\ UNCHANGED <<code, lines, buf, ips, writes>>

\* get_constant falling back to the last constant when the index is out of range
get_constant_clamped(index) ==
    /\ ret' = IF index < Len(constants)
              THEN [kind |-> "get_constant", index |-> index, panic |-> FALSE,
                    value |-> constants[index + 1]]
              ELSE IF Len(constants) > 0
              THEN [kind |-> "get_constant", index |-> index, panic |-> FALSE,
                    value |-> constants[Len(constants)]]
              ELSE [kind |-> "get_constant", index |-> index, panic |-> TRUE]
    /\ UNCHANGED <<code, constants, lines, buf, ips, writes, added>>

\* Bytecode::get_constant: constants.get(index).unwrap().clone()
get_constant(index) ==
    /\ ret' = IF index < Len(constants)
              THEN [kind |-> "get_constant", index |-> index, panic |-> FALSE,
                    value |-> constants[index + 1]]
              ELSE [kind |-> "get_constant", index |-> index, panic |-> TRUE]
    /\ UNCHANGED <<code, constants, lines, buf, ips, writes, added>>

\* Bytecode::get_code_len
get_code_len ==
    /\ ret' = [kind |-> "get_code_len", len |-> Len(code)]
    /\ UNCHANGED <<code, constants, lines, buf, ips, writes, added>>

\* ------------------------------------------------------------ Ip<S>
\* A raw pointer is an allocation and an offset into it. The null pointer
\* belongs to no allocation; so does the dangling, non-null pointer that
\* as_ptr gives for the slice of a vector that has never allocated (buf 0).
NullPtr == [buf |-> -1, off |-> 0]

\* self.code.as_slice().as_ptr()
code_as_ptr == [buf |-> buf, off |-> 0]

\* Ip::create: the assertion cannot fail, a slice's pointer is never null.
Ip_create(ptr) == [ptr |-> ptr, state |-> "Initialized"]

\* Ip::create_uninitialized
Ip_create_uninitialized == [ptr |-> NullPtr, state |-> "Uninitialized"]

\* unsafe { *self.ptr }: the byte stored there when the pointer is into the
\* initialised part of the live allocation; otherwise the read is undefined
\* behaviour (freed, never allocated, or uninitialised memory) and the build
\* yields some byte or faults.
InBounds(ptr) == ptr.buf = buf /\ buf > 0 /\ ptr.off < Len(code)

Deref(ptr) ==
    IF InBounds(ptr)
    THEN {[fault |-> FALSE, byte |-> code[ptr.off + 1]]}
    ELSE {[fault |-> TRUE]} \cup {[fault |-> FALSE, byte |-> b] : b \in Bytes}

\* The methods of impl Ip<Initialized> exist only for that state tag.
IsInitialized(i) == i \in DOMAIN ips /\ ips[i].state = "Initialized"

\* Bytecode::get_base_ip
get_base_ip ==
    /\ Len(ips) < MaxIps
    /\ ips' = Append(ips, Ip_create(code_as_ptr))
    /\ ret' = [kind |-> "get_base_ip", ip |-> Len(ips) + 1]
    /\ UNCHANGED <<code, constants, lines, buf, writes, added>>

\* A caller's Ip::<S>::create_uninitialized()
create_uninitialized ==
    /\ Len(ips) < MaxIps
    /\ ips' = Append(ips, Ip_create_uninitialized)
    /\ ret' = [kind |-> "create_uninitialized", ip |-> Len(ips) + 1]
    /\ UNCHANGED <<code, constants, lines, buf, writes, added>>

\* get_op with unwrap_or(Op::Ret) in place of unwrap
get_op_ret_default(i, r) ==
    IF r.fault THEN [kind |-> "get_op", ip |-> i, outcome |-> "fault"]
    ELSE IF try_from_primitive(r.byte).ok
    THEN [kind |-> "get_op", ip |-> i, outcome |-> "ok", byte |-> r.byte,
          op |-> try_from_primitive(r.byte).op]
    ELSE [kind |-> "get_op", ip |-> i, outcome |-> "ok", byte |-> r.byte,
          op |-> "Ret"]

\* Ip<Initialized>::get_op: try_from_primitive(byte).unwrap()
get_op_ret(i, r) ==
    IF r.fault THEN [kind |-> "get_op", ip |-> i, outcome |-> "fault"]
    ELSE IF try_from_primitive(r.byte).ok
    THEN [kind |-> "get_op", ip |-> i, outcome |-> "ok", byte |-> r.byte,
          op |-> try_from_primitive(r.byte).op]
    ELSE [kind |-> "get_op", ip |-> i, outcome |-> "panic", byte |-> r.byte]

get_op(i) ==
    /\ IsInitialized(i)
    /\ \E r \in Deref(ips[i].ptr) : ret' = get_op_ret(i, r)
    /\ UNCHANGED <<code, constants, lines, buf, ips, writes, added>>

\* get_u8 defined for every state tag (impl<S> instead of impl Ip<Initialized>)
get_u8_any_state(i) ==
    /\ i \in DOMAIN ips
    /\ \E r \in Deref(ips[i].ptr) :
          ret' = IF r.fault THEN [kind |-> "get_u8", ip |-> i, outcome |-> "fault"]
                 ELSE [kind |-> "get_u8", ip |-> i, outcome |-> "ok", byte |-> r.byte]
    /\ UNCHANGED <<code, constants, lines, buf, ips, writes, added>>

\* get_u8 as a read that also steps the cursor past the byte
get_u8_advancing(i) ==
    /\ IsInitialized(i)
    /\ ips[i].ptr.off + 1 <= MaxOff
    /\ \E r \in Deref(ips[i].ptr) :
          ret' = IF r.fault THEN [kind |-> "get_u8", ip |-> i, outcome |-> "fault"]
                 ELSE [kind |-> "get_u8", ip |-> i, outcome |-> "ok", byte |-> r.byte]
    /\ ips' = [ips EXCEPT ![i].ptr.off = @ + 1]
    /\ UNCHANGED <<code, constants, lines, buf, writes, added>>

\* Ip<Initialized>::get_u8
get_u8_ret(i, r) ==
    IF r.fault THEN [kind |-> "get_u8", ip |-> i, outcome |-> "fault"]
    ELSE [kind |-> "get_u8", ip |-> i, outcome |-> "ok", byte |-> r.byte]

get_u8(i) ==
    /\ IsInitialized(i)
    /\ \E r \in Deref(ips[i].ptr) : ret' = get_u8_ret(i, r)
    /\ UNCHANGED <<code, constants, lines, buf, ips, writes, added>>

\* inc stepping one byte whatever the offset
ptr_add_one(ptr, offset) == [ptr EXCEPT !.off = @ + 1]

\* add on a pointer to two-byte elements: every step twice as far
ptr_add_wide(ptr, offset) == [ptr EXCEPT !.off = @ + 2 * offset]

\* Ip<Initialized>::inc: self.ptr = self.ptr.add(offset), no bounds check.
ptr_add(ptr, offset) == [ptr EXCEPT !.off = @ + offset]

\* inc on a position shared by every cursor instead of the cursor's own
inc_shared(i, offset) ==
    /\ IsInitialized(i)
    /\ ips[i].ptr.off + offset <= MaxOff
    /\ ips' = [j \in DOMAIN ips |->
                 IF ips[j].state = "Initialized"
                 THEN [ips[j] EXCEPT !.ptr = ptr_add(ips[i].ptr, offset)]
                 ELSE ips[j]]
    /\ ret' = [kind |-> "inc", ip |-> i, offset |-> offset]
    /\ UNCHANGED <<code, constants, lines, buf, writes, added>>

inc(i, offset) ==
    /\ IsInitialized(i)
    /\ ips[i].ptr.off + offset <= MaxOff
    /\ ips' = [ips EXCEPT ![i].ptr = ptr_add(@, offset)]
    /\ ret' = [kind |-> "inc", ip |-> i, offset |-> offset]
    /\ UNCHANGED <<code, constants, lines, buf, writes, added>>

\* ----------------------------------------------------- disassemble
\* Text is a sequence of one-character strings.
DigitChar == <<"0", "1", "2", "3", "4", "5", "6", "7", "8", "9">>

RECURSIVE Decimal(_)
Decimal(n) ==
    IF n < 10 THEN <<DigitChar[n + 1]>>
    ELSE Append(Decimal(n \div 10), DigitChar[(n % 10) + 1])

PadLeft(text, width, fill) ==
    [k \in 1..(width - Len(text)) |-> fill] \o text

\* format!("{op_index:04}") and format!("{constant:04}")
FormatZero4(n) == PadLeft(Decimal(n), 4, "0")

\* format!("{line: >4}")
FormatRight4(n) == PadLeft(Decimal(n), 4, " ")

\* the literal "   | " without its trailing separator
SameLineMark == <<" ", " ", " ", "|">>

\* Display for LoxValue: crate::lox_value is not among the sources; a value
\* is rendered as its decimal form.
ValueDisplay(value) == Decimal(value)

\* the line column with the guard op_index > 1 in place of op_index > 0
LineColumn_from_second(ls, op_index) ==
    IF op_index > 1 /\ ls[op_index + 1] = ls[op_index]
    THEN SameLineMark
    ELSE FormatRight4(ls[op_index + 1])

\* The line-number column of the instruction at op_index (lines 108-113).
LineColumn(ls, op_index) ==
    IF op_index > 0 /\ ls[op_index + 1] = ls[op_index]
    THEN SameLineMark
    ELSE FormatRight4(ls[op_index + 1])

\* the constant looked up with the byte at op_index (the tag) as its index
OpText_tag_as_index(c, ks, op_index, op) ==
    IF op = "ConstantSmall"
    THEN IF op_index + 1 >= Len(c) THEN [panic |-> TRUE]
         ELSE IF c[op_index + 1] >= Len(ks) THEN [panic |-> TRUE]
         ELSE [panic |-> FALSE, text |-> OpDisplay(op),
               operands |-> <<FormatZero4(c[op_index + 1]),
                              ValueDisplay(ks[c[op_index + 1] + 1])>>]
    ELSE [panic |-> FALSE, text |-> OpDisplay(op), operands |-> <<>>]

\* One iteration's text for a decoded opcode (lines 116-123); the indexing
\* self.code[op_index + 1] and self.constants[constant] panics out of range.
OpText(c, ks, op_index, op) ==
    IF op = "ConstantSmall"
    THEN IF op_index + 1 >= Len(c) THEN [panic |-> TRUE]
         ELSE IF c[op_index + 2] >= Len(ks) THEN [panic |-> TRUE]
         ELSE [panic |-> FALSE, text |-> OpDisplay(op),
               operands |-> <<FormatZero4(c[op_index + 2]),
                              ValueDisplay(ks[c[op_index + 2] + 1])>>]
    ELSE [panic |-> FALSE, text |-> OpDisplay(op), operands |-> <<>>]

\* the scan stepping one byte past an unknown byte instead of stopping
RECURSIVE DisassembleFrom_resync(_, _, _, _, _)
DisassembleFrom_resync(c, ls, ks, op_index, out) ==
    IF ~(op_index < Len(c)) THEN [panic |-> FALSE, text |-> out, op_index |-> op_index]
    ELSE IF op_index >= Len(ls) THEN [panic |-> TRUE, op_index |-> op_index]
    ELSE LET head == [offset |-> FormatZero4(op_index),
                      line |-> LineColumn(ls, op_index)]
             dec == try_from_primitive(c[op_index + 1])
         IN IF dec.ok
            THEN LET t == OpText(c, ks, op_index, dec.op)
                 IN IF t.panic THEN [panic |-> TRUE, op_index |-> op_index]
                    ELSE DisassembleFrom_resync(c, ls, ks,
                            op_index + 1 + operand_count(dec.op),
                            Append(out, [offset |-> head.offset, line |-> head.line,
                                         text |-> t.text, operands |-> t.operands]))
            ELSE DisassembleFrom_resync(c, ls, ks, op_index + 1,
                    Append(out, [offset |-> head.offset, line |-> head.line,
                                 text |-> "Illegal Instruction", operands |-> <<>>]))

\* The scan loop (lines 104-132) from op_index on, out the lines emitted so far.
\* The result carries op_index as it is when the loop is left: by its test, or
\* by a panic that unwinds and drops the text.
RECURSIVE DisassembleFrom(_, _, _, _, _)
DisassembleFrom(c, ls, ks, op_index, out) ==
    IF ~(op_index < Len(c)) THEN [panic |-> FALSE, text |-> out, op_index |-> op_index]
    ELSE IF op_index >= Len(ls) THEN [panic |-> TRUE, op_index |-> op_index]
    ELSE LET head == [offset |-> FormatZero4(op_index),
                      line |-> LineColumn(ls, op_index)]
             dec == try_from_primitive(c[op_index + 1])
         IN IF dec.ok
            THEN LET t == OpText(c, ks, op_index, dec.op)
                 IN IF t.panic THEN [panic |-> TRUE, op_index |-> op_index]
                    ELSE DisassembleFrom(c, ls, ks,
                            op_index + 1 + operand_count(dec.op),
                            Append(out, [offset |-> head.offset, line |-> head.line,
                                         text |-> t.text, operands |-> t.operands]))
            ELSE DisassembleFrom(c, ls, ks, Len(c),
                    Append(out, [offset |-> head.offset, line |-> head.line,
                                 text |-> "Illegal Instruction", operands |-> <<>>]))

\* Bytecode::disassemble as a function of the chunk: the header line, then
\* the scan from offset 0.
Disassembly(c, ls, ks, name) ==
    DisassembleFrom(c, ls, ks, 0, <<[header |-> name]>>)

disassemble(name) ==
    /\ ret' = [kind |-> "disassemble", name |-> name,
               out |-> Disassembly(code, lines, constants, name)]
    /\ UNCHANGED <<code, constants, lines, buf, ips, writes, added>>


\* The chunk's own operations, with every byte, line and value; at most one
\* cursor is taken and it is never used.
Next ==
    \/ \E b \in Bytes, l \in Lines : write_u8(b, l)
    \/ \E v \in Values : add_constant(v)
    \/ \E i \in Indices : get_constant(i)
    \/ get_code_len
    \/ \E n \in Names : disassemble(n)
    \/ (ips = <<>> /\ get_base_ip)

Spec == Init /\ [][Next]_vars

\* One cursor, used while the chunk is still written to. The cursor never
\* reads lines or constants: this specification writes every byte at one line
\* and adds one value.
NextIp ==
    \/ \E b \in Bytes : write_u8(b, MaxLine)
    \/ add_constant(MaxValue)
    \/ (ips = <<>> /\ get_base_ip)
    \/ (ips = <<>> /\ create_uninitialized)
    \/ \E i \in 1..MaxIps : get_op(i)
    \/ \E i \in 1..MaxIps : get_u8(i)
    \/ \E i \in 1..MaxIps, n \in Incs : inc(i, n)

SpecIp == Init /\ [][NextIp]_vars

\* The order the surrounding system keeps (the compiler and the execution
\* engine are not among the sources): the chunk is written first, and once a
\* cursor has been taken it is written no more.
Build ==
    /\ ips = <<>>
    /\ \/ \E b \in Bytes : write_u8(b, MaxLine)
       \/ add_constant(MaxValue)

\* Construction, then up to MaxIps cursors used freely.
NextTrav ==
    \/ Build
    \/ get_base_ip
    \/ \E i \in 1..MaxIps : get_op(i)
    \/ \E i \in 1..MaxIps : get_u8(i)
    \/ \E i \in 1..MaxIps, n \in Incs : inc(i, n)

SpecTrav == Init /\ [][NextTrav]_vars

\* The execution engine's loop: decode while the cursor is before the end of
\* the stream, then advance by the decoded opcode's width.
walk_decode(i) ==
    /\ IsInitialized(i)
    /\ ips[i].ptr.off < Len(code)
    /\ get_op(i)

walk_advance(i) ==
    /\ ret.kind = "get_op"
    /\ ret.ip = i
    /\ ret.outcome = "ok"
    /\ inc(i, 1 + operand_count(ret.op))

\* Construction, then cursors stepped by the loop, and the disassembler.
NextWalk ==
    \/ Build
    \/ get_base_ip
    \/ \E i \in 1..MaxIps : walk_decode(i)
    \/ \E i \in 1..MaxIps : walk_advance(i)
    \/ \E n \in Names : disassemble(n)

SpecWalk == Init /\ [][NextWalk]_vars

\* ------------------------------------------------------- properties

\* C1: at every point of construction lines is as long as code, and
\* get_code_len returns the number of write_u8 calls made so far.
C1_LinesParallelToCode ==
    /\ Len(lines) = Len(code)
    /\ Len(code) = Len(writes)
    /\ ret.kind = "get_code_len" => ret.len = Len(writes)

C1_Witness ==
    /\ ret.kind = "get_code_len"
    /\ Len(writes) >= 2
    /\ Len(added) >= 1

\* C2: the k-th add_constant call (from 0) returns k, and get_constant(i)
\* returns the i-th value added, for every i below the number of calls.
C2_ConstantIndices ==
    /\ ret.kind = "add_constant" => ret.index = Len(added) - 1
    /\ (ret.kind = "get_constant" /\ ret.index < Len(added)) =>
           (~ret.panic /\ ret.value = added[ret.index + 1])

C2_Witness ==
    /\ ret.kind = "get_constant"
    /\ ret.index = 1
    /\ Len(added) >= 2
    /\ added[1] # added[2]
    /\ Len(writes) >= 1

\* The bytes handed to write_u8, in call order.
Written == [k \in 1..Len(writes) |-> writes[k][1]]

IsTag(byte) == \E op \in Ops : TagOf(op) = byte

OpWithTag(byte) == CHOOSE op \in Ops : TagOf(op) = byte

\* The instruction positions of a byte stream, in order: offset 0, then each
\* position one tag byte and its operand bytes further on; an unknown byte
\* is the last position.
RECURSIVE Positions(_, _)
Positions(bytes, p) ==
    IF p >= Len(bytes) THEN <<>>
    ELSE IF ~IsTag(bytes[p + 1]) THEN <<p>>
    ELSE <<p>> \o Positions(bytes, p + 1 + operand_count(OpWithTag(bytes[p + 1])))

\* The positions holding a known tag with all its operand bytes written.
Instructions(bytes) ==
    LET ps == Positions(bytes, 0)
    IN {ps[k] : k \in {j \in DOMAIN ps :
            /\ IsTag(bytes[ps[j] + 1])
            /\ ps[j] + operand_count(OpWithTag(bytes[ps[j] + 1])) < Len(bytes)}}

Width(bytes, p) == 1 + operand_count(OpWithTag(bytes[p + 1]))

\* Cursor i points at offset q of the chunk's live storage.
PointsAt(i, q) == IsInitialized(i) /\ ips[i].ptr = [buf |-> buf, off |-> q] /\ buf > 0

\* C3 (as stated): once get_base_ip has returned a cursor, no write_u8 or
\* add_constant is applied to the chunk and its storage does not move.
C3_NoMutationWhileCursorBound ==
    [][(\E i \in DOMAIN ips : ips[i].state = "Initialized") =>
          (code' = code /\ constants' = constants /\ lines' = lines /\ buf' = buf)]_vars

C5_RoundTrip ==
    /\ [](\A p \in Instructions(Written) :
            /\ (ret.kind = "get_op" /\ PointsAt(ret.ip, p)) =>
                   (ret.outcome = "ok" /\ TagOf(ret.op) = Written[p + 1])
            /\ \A k \in 1..(Width(Written, p) - 1) :
                   (ret.kind = "get_u8" /\ PointsAt(ret.ip, p + k)) =>
                       (ret.outcome = "ok" /\ ret.byte = Written[p + k + 1]))
    /\ [][\A p \in Instructions(Written) : \A k \in 0..(Width(Written, p) - 1) :
            \A i \in DOMAIN ips :
              (PointsAt(i, p + k) /\ ret'.kind = "inc" /\ ret'.ip = i
                 /\ ret'.offset = Width(Written, p) - k) =>
                  /\ ips'[i].ptr = [buf |-> buf, off |-> p + Width(Written, p)]
                  /\ \/ p + Width(Written, p) = Len(code)
                     \/ \E j \in DOMAIN Positions(code, 0) :
                           Positions(code, 0)[j] = p + Width(Written, p)]_vars

C5_Witness ==
    /\ Len(code) = 3
    /\ code[1] = TagOf("ConstantSmall")
    /\ ret.kind = "inc"
    /\ ret.offset = 1
    /\ PointsAt(ret.ip, 2)

\* C7: get_op on a cursor in the chunk's storage panics when the byte under
\* it is no opcode's tag, returns the opcode with that tag otherwise, and
\* does not move the cursor.
C7_GetOpUnknownByte ==
    /\ [](ret.kind = "get_op" =>
            \A q \in 0..(Len(code) - 1) : PointsAt(ret.ip, q) =>
                IF IsTag(code[q + 1])
                THEN ret.outcome = "ok" /\ TagOf(ret.op) = code[q + 1]
                ELSE ret.outcome = "panic" /\ "op" \notin DOMAIN ret)
    /\ [][ret'.kind = "get_op" => ips' = ips]_vars

C7_Witness ==
    /\ ret.kind = "get_op"
    /\ ret.outcome = "panic"
    /\ Len(code) >= 2
    /\ PointsAt(ret.ip, 1)
    /\ ~IsTag(code[2])

\* C6: get_constant with index >= len(constants) panics and returns no
\* value, with index < len(constants) it does not panic, and it leaves the
\* chunk as it was.
C6_GetConstantOutOfRange ==
    /\ [](ret.kind = "get_constant" =>
            /\ ret.panic <=> ret.index >= Len(constants)
            /\ ret.panic => "value" \notin DOMAIN ret
            /\ ~ret.panic => ret.value = constants[ret.index + 1])
    /\ [][ret'.kind = "get_constant" => UNCHANGED chunk]_vars

C6_Witness ==
    /\ ret.kind = "get_constant"
    /\ ret.panic
    /\ Len(constants) >= 1
    /\ ret.index >= Len(constants)

\* The constant index after a ConstantSmall tag at p is written and in range.
OperandInRange(bytes, ks, p) ==
    bytes[p + 1] = TagOf("ConstantSmall") =>
        (p + 1 < Len(bytes) /\ bytes[p + 2] < Len(ks))

\* Every instruction position before the k-th holds a known tag with its
\* operand in range, so the scan gets to the k-th position.
ScanReaches(bytes, ks, k) ==
    \A j \in 1..(k - 1) :
        /\ IsTag(bytes[Positions(bytes, 0)[j] + 1])
        /\ OperandInRange(bytes, ks, Positions(bytes, 0)[j])

WellFormed(bytes, ks) ==
    /\ ScanReaches(bytes, ks, Len(Positions(bytes, 0)) + 1)

\* C8: when the scan reaches a position whose byte is no known tag, the
\* output ends with the marker line for that position, the lines before it
\* are the disassembly of the chunk cut before that position, and nothing
\* is emitted for the bytes after it.
C8_IllegalInstructionStops ==
    ret.kind = "disassemble" =>
        LET ps == Positions(code, 0)
            n == Len(ps)
        IN (n > 0 /\ ~IsTag(code[ps[n] + 1]) /\ ScanReaches(code, constants, n)) =>
              /\ ~ret.out.panic
              /\ Len(ret.out.text) = n + 1
              /\ ret.out.text[n + 1].text = "Illegal Instruction"
              /\ ret.out.text[n + 1].offset = FormatZero4(ps[n])
              /\ ret.out.text[n + 1].operands = <<>>
              /\ LET cut == Disassembly(SubSeq(code, 1, ps[n]), SubSeq(lines, 1, ps[n]),
                                        constants, ret.name)
                 IN ~cut.panic /\ cut.text = SubSeq(ret.out.text, 1, n)

C8_Witness ==
    /\ ret.kind = "disassemble"
    /\ ~ret.out.panic
    /\ Len(code) = 3
    /\ IsTag(code[1])
    /\ ~IsTag(code[2])
    /\ IsTag(code[3])
    /\ Len(ret.out.text) = 3

\* C9 (as stated): an instruction's line column is numeric exactly when the
\* instruction is the first or its line differs from the line recorded for
\* the previous instruction's tag byte, and is the placeholder otherwise.
C9_LineOfPreviousInstruction ==
    (ret.kind = "disassemble" /\ ~ret.out.panic) =>
        LET ps == Positions(code, 0)
        IN \A k \in 1..Len(ps) :
              IF k = 1 \/ lines[ps[k] + 1] # lines[ps[k - 1] + 1]
              THEN ret.out.text[k + 1].line = FormatRight4(lines[ps[k] + 1])
              ELSE ret.out.text[k + 1].line = SameLineMark

\* C9 (amended): an instruction's line column is numeric exactly when the
\* instruction is at offset 0 or its line differs from the line recorded for
\* the byte just before its tag byte (the previous instruction's last byte),
\* and is the placeholder otherwise.
C9_LineOfPreviousByte ==
    (ret.kind = "disassemble" /\ ~ret.out.panic) =>
        LET ps == Positions(code, 0)
        IN /\ Len(ret.out.text) = Len(ps) + 1
           /\ \A k \in 1..Len(ps) :
                 IF ps[k] = 0 \/ lines[ps[k] + 1] # lines[ps[k]]
                 THEN ret.out.text[k + 1].line = FormatRight4(lines[ps[k] + 1])
                 ELSE ret.out.text[k + 1].line = SameLineMark

\* An operand byte written at another line than its tag, the next
\* instruction at the operand's line.
C9_Witness ==
    /\ ret.kind = "disassemble"
    /\ ~ret.out.panic
    /\ Len(code) = 3
    /\ code[1] = TagOf("ConstantSmall")
    /\ lines[1] # lines[2]
    /\ lines[2] = lines[3]
    /\ ret.out.text[3].line = SameLineMark

\* C10: for a well-formed chunk disassemble returns the header line and then
\* one line per instruction, in stream order, each with the offset of its
\* tag byte and its mnemonic, a ConstantSmall line with its operand byte and
\* the constant at that index; for an empty chunk, the header line alone.
C10_OneLinePerInstruction ==
    (ret.kind = "disassemble" /\ WellFormed(code, constants)) =>
        LET ps == Positions(code, 0)
        IN /\ ~ret.out.panic
           /\ Len(ret.out.text) = Len(ps) + 1
           /\ ret.out.text[1] = [header |-> ret.name]
           /\ Len(code) = 0 => ret.out.text = <<[header |-> ret.name]>>
           /\ \A k \in 1..Len(ps) :
                 LET op == OpWithTag(code[ps[k] + 1])
                     ln == ret.out.text[k + 1]
                 IN /\ ln.offset = FormatZero4(ps[k])
                    /\ ln.text = OpDisplay(op)
                    /\ ln.operands =
                         IF op = "ConstantSmall"
                         THEN <<FormatZero4(code[ps[k] + 2]),
                                ValueDisplay(constants[code[ps[k] + 2] + 1])>>
                         ELSE <<>>

C10_Witness ==
    /\ ret.kind = "disassemble"
    /\ WellFormed(code, constants)
    /\ Len(code) = 3
    /\ code[2] = TagOf("ConstantSmall")
    /\ code[3] = 1
    /\ Len(constants) = 2
    /\ constants[1] # constants[2]

\* C11: get_base_ip returns a cursor at offset 0 of the chunk's code, a
\* further cursor can always be taken, and an inc of one cursor changes no
\* other cursor and none of code, constants and lines.
C11_IndependentCursors ==
    /\ [](ret.kind = "get_base_ip" =>
            (IsInitialized(ret.ip) /\ ips[ret.ip].ptr = [buf |-> buf, off |-> 0]))
    /\ [](Len(ips) < MaxIps => ENABLED get_base_ip)
    /\ [][\A i \in DOMAIN ips : (ret'.kind = "inc" /\ ret'.ip = i) =>
            /\ DOMAIN ips' = DOMAIN ips
            /\ \A j \in DOMAIN ips \ {i} : ips'[j] = ips[j]
            /\ UNCHANGED <<code, constants, lines>>]_vars

C11_Witness ==
    /\ Len(ips) = 2
    /\ IsInitialized(1) /\ IsInitialized(2)
    /\ Len(code) >= 2
    /\ ret.kind = "inc"
    /\ ret.ip = 2
    /\ ips[1].ptr.off = 1
    /\ ips[2].ptr.off = 2

\* xs grown by exactly one element at its end, the earlier ones as they were.
AppendedOne(xs, ys) == Len(ys) = Len(xs) + 1 /\ SubSeq(ys, 1, Len(xs)) = xs

\* C12: write_u8 appends one element to code and one to lines and leaves the
\* earlier elements and constants as they were; add_constant appends one
\* element to constants and leaves the earlier ones, code and lines as they
\* were; get_constant, get_code_len, get_base_ip and disassemble change none
\* of code, constants and lines.
C12_AppendOnly ==
    [][/\ ret'.kind = "write_u8" =>
            /\ AppendedOne(code, code') /\ AppendedOne(lines, lines')
            /\ <<code'[Len(code')], lines'[Len(lines')]>> = writes'[Len(writes')]
            /\ constants' = constants
       /\ ret'.kind = "add_constant" =>
            /\ AppendedOne(constants, constants')
            /\ constants'[Len(constants')] = added'[Len(added')]
            /\ code' = code /\ lines' = lines
       /\ ret'.kind \in {"get_constant", "get_code_len", "get_base_ip", "disassemble"} =>
            (code' = code /\ constants' = constants /\ lines' = lines)]_vars

C12_Witness ==
    /\ ret.kind = "add_constant"
    /\ Len(constants) = 2
    /\ constants[1] # constants[2]
    /\ Len(code) >= 1
    /\ Len(ips) = 1

\* The offsets the disassembler labels its instruction lines with, in order.
ScanOffsets(name) ==
    LET d == Disassembly(code, lines, constants, name)
    IN [k \in 1..(Len(d.text) - 1) |-> d.text[k + 1].offset]

ScanMnemonics(name) ==
    LET d == Disassembly(code, lines, constants, name)
    IN [k \in 1..(Len(d.text) - 1) |-> d.text[k + 1].text]

\* C13: on a well-formed chunk a cursor taken by get_base_ip and stepped by
\* inc(1 + operand_count(get_op())) is always on an offset the disassembler
\* labels a line with, or on code.len() after the last instruction; it
\* decodes there the opcode the disassembler prints there, the byte under it
\* is a tag, and each step takes it from one line's offset to the next
\* line's, from the last line's to code.len().
C13_WalkMatchesDisassembler ==
    /\ [](WellFormed(code, constants) =>
            \A n \in Names : \A i \in DOMAIN ips : IsInitialized(i) =>
                LET q == ips[i].ptr.off
                    offs == ScanOffsets(n)
                IN /\ ~Disassembly(code, lines, constants, n).panic
                   /\ ips[i].ptr.buf = buf
                   /\ q <= Len(code)
                   /\ q < Len(code) =>
                         /\ IsTag(code[q + 1])
                         /\ \E k \in DOMAIN offs : offs[k] = FormatZero4(q)
                   /\ (ret.kind = "get_op" /\ ret.ip = i) =>
                         /\ ret.outcome = "ok"
                         /\ \E k \in DOMAIN offs :
                               /\ offs[k] = FormatZero4(q)
                               /\ ScanMnemonics(n)[k] = OpDisplay(ret.op))
    /\ [][WellFormed(code, constants) =>
            \A n \in Names : \A i \in DOMAIN ips :
                (IsInitialized(i) /\ ret'.kind = "inc" /\ ret'.ip = i) =>
                    LET offs == ScanOffsets(n)
                    IN \E k \in DOMAIN offs :
                          /\ offs[k] = FormatZero4(ips[i].ptr.off)
                          /\ IF k < Len(offs)
                             THEN offs[k + 1] = FormatZero4(ips'[i].ptr.off)
                             ELSE ips'[i].ptr.off = Len(code)]_vars

C13_Witness ==
    /\ WellFormed(code, constants)
    /\ Len(code) = 3
    /\ code[1] = TagOf("ConstantSmall")
    /\ ret.kind = "inc"
    /\ ips[ret.ip].ptr.off = 3

\* C14 (as stated): every disassemble call returns its text; no index into
\* code, lines or constants is out of range.
C14_DisassembleCompletes ==
    ret.kind = "disassemble" => ~ret.out.panic

\* The number a printed offset stands for.
DigitValue(ch) == (CHOOSE d \in 1..10 : DigitChar[d] = ch) - 1

RECURSIVE ParseDecimal(_)
ParseDecimal(text) ==
    IF Len(text) = 0 THEN 0
    ELSE 10 * ParseDecimal(SubSeq(text, 1, Len(text) - 1)) + DigitValue(text[Len(text)])

\* C15 (as stated): on every chunk the scan's offset grows on every
\* iteration, by 1 + operand_count after a known opcode and to code.len()
\* after an unknown byte, at most code.len() instruction lines are emitted
\* and the loop exits with the offset >= code.len().
C15_ScanExitsPastEnd ==
    ret.kind = "disassemble" =>
        /\ ~ret.out.panic
        /\ ret.out.op_index >= Len(code)
        /\ Len(ret.out.text) - 1 <= Len(code)
        /\ \A k \in 2..Len(ret.out.text) :
              LET at == ParseDecimal(ret.out.text[k].offset)
                  to == IF k < Len(ret.out.text)
                        THEN ParseDecimal(ret.out.text[k + 1].offset)
                        ELSE ret.out.op_index
              IN /\ at < to
                 /\ to = IF IsTag(code[at + 1])
                         THEN at + 1 + operand_count(OpWithTag(code[at + 1]))
                         ELSE Len(code)

Peeks == {"get_op", "get_u8"}

\* get_op and get_u8 leave every cursor where it is; an inc moves its cursor
\* forward by exactly its offset, whatever code.len() is, so that two incs
\* add up; an inc is never refused.
PeekAndAdvanceFrame ==
    /\ [][ret'.kind \in Peeks => ips' = ips]_vars
    /\ [][\A i \in DOMAIN ips : (ret'.kind = "inc" /\ ret'.ip = i) =>
            ips'[i].ptr = [buf |-> ips[i].ptr.buf,
                           off |-> ips[i].ptr.off + ret'.offset]]_vars
    /\ [](\A i \in DOMAIN ips : \A a \in Incs, b \in Incs :
            ptr_add(ptr_add(ips[i].ptr, a), b) = ptr_add(ips[i].ptr, a + b))
    /\ [](\A i \in DOMAIN ips : \A n \in Incs :
            (IsInitialized(i) /\ ips[i].ptr.off + n <= MaxOff) => ENABLED inc(i, n))

====
